---- MODULE Spec2Model ----
(***************************************************************************)
(* Model of colr/preset.py: the Preset value object (fore, back, style),   *)
(* its invocation, comparison, hashing, code resolution and merge.         *)
(*                                                                         *)
(* Python values are records [t, s, id]: t is the Python type name, s the  *)
(* content of a str as its sequence of code points, id the heap index of   *)
(* a Preset object.  Strings are kept as code points so that ordering,     *)
(* concatenation and hashing are computed, not assumed.                    *)
(***************************************************************************)
EXTENDS Integers, Sequences, FiniteSets, TLC

VARIABLES heap, constructed, last

vars == <<heap, constructed, last>>

\* Largest number of Preset objects the callers hold at once.
MaxPresets == 2

----------------------------------------------------------------------------
\* Python values

Obj(t, s, id) == [t |-> t, s |-> s, id |-> id]
None == Obj("NoneType", <<>>, 0)
Str(s) == Obj("str", s, 0)
PyInt(n) == Obj("int", <<n>>, 0)
Bool(b) == Obj("bool", <<IF b THEN 1 ELSE 0>>, 0)
Ref(i) == Obj("Preset", <<>>, i)

\* 'red', 'nope', 'bold', 'ff0000', 'hi', '-'
red == <<114, 101, 100>>
nope == <<110, 111, 112, 101>>
bold == <<98, 111, 108, 100>>
ff0000 == <<102, 102, 48, 48, 48, 48>>
hi == <<104, 105>>
dash == <<45>>

\* Values the callers pass for each axis, for the text and for `default`.
ForeValues == {None, Str(red), Str(nope)}
BackValues == {None, Str(ff0000)}
StyleValues == {None, Str(bold), Str(nope)}
\* Values the callers pass per call, to __call__ and to merge.
ForeOverrides == {None, Str(nope)}
BackOverrides == {None, Str(ff0000)}
StyleOverrides == {None, Str(bold)}
Texts == {Str(hi)}
Defaults == {None, Str(dash)}
CodeTypes == {"fore", "back", "style", "bogus"}
\* Right-hand operands that are not Presets: 42, 'red', None.
Strangers == {PyInt(42), Str(red), None}

Return(v) == [kind |-> "return", exc |-> "", value |-> v]
Raise(e) == [kind |-> "raise", exc |-> e, value |-> None]

----------------------------------------------------------------------------
\* Collaborators imported from colr.colr: the table `codes` and the class Colr.

\* "\x1b[" ++ body ++ "m"
codeformat(body) == <<27, 91>> \o body \o <<109>>

\* codes[codetype]: name -> escape fragment.
codes(codetype) ==
  CASE codetype = "fore" -> [k \in {red} |-> codeformat(<<51, 49>>)]
    [] codetype = "back" -> [k \in {red} |-> codeformat(<<52, 49>>)]
    [] codetype = "style" -> [k \in {bold} |-> codeformat(<<49>>)]

\* codes[codetype].get(val, None)
codes_get(codetype, val) ==
  IF val.t = "str" /\ val.s \in DOMAIN codes(codetype)
  THEN Str(codes(codetype)[val.s])
  ELSE None

\* The calculated (non-table) forms the Colorizer accepts: a hex triplet.
\* 'ff0000' -> "38;2;255;0;0" (fore) / "48;2;255;0;0" (back)
extended(codetype, val) ==
  IF val.t = "str" /\ val.s = ff0000 /\ codetype \in {"fore", "back"}
  THEN Str(codeformat((IF codetype = "fore" THEN <<51>> ELSE <<52>>)
              \o <<56, 59, 50, 59, 50, 53, 53, 59, 48, 59, 48>>))
  ELSE None

\* The fragment of a value found in neither form is a validation error.
escape_or_invalid(codetype, named, calculated) ==
  IF named # None THEN Return(named)
  ELSE IF calculated # None THEN Return(calculated)
  ELSE Raise(IF codetype = "style" THEN "InvalidStyle" ELSE "InvalidColr")

\* The escape fragment of one axis, or the validation error.
get_escape_code(codetype, val) ==
  IF val = None THEN Return(Str(<<>>))
  ELSE escape_or_invalid(codetype, codes_get(codetype, val),
                         extended(codetype, val))

closing_code == codeformat(<<48>>)

\* <codes><text><reset>; the reset only follows styled, non-empty text.
Colr_data(txt, esc) ==
  Obj("Colr", esc \o txt \o (IF txt # <<>> /\ esc # <<>> THEN closing_code ELSE <<>>), 0)

\* Colr, given the outcome of validating each axis.
Colr_validated(text, f, b, s) ==
  IF f.kind = "raise" THEN f
  ELSE IF b.kind = "raise" THEN b
  ELSE IF s.kind = "raise" THEN s
  ELSE Return(Colr_data(IF text = None THEN <<>> ELSE text.s,
                        f.value.s \o b.value.s \o s.value.s))

\* Colr(text, fore=, back=, style=): validates every axis given.
Colr(text, fore, back, style) ==
  Colr_validated(text, get_escape_code("fore", fore),
                 get_escape_code("back", back), get_escape_code("style", style))

\* str(colr)
str(o) == Str(o.s)

\* One logged call of the Colorizer.
ColrCall(text, fore, back, style) ==
  [text |-> text, fore |-> fore, back |-> back, style |-> style]

----------------------------------------------------------------------------
\* Builtins used by preset.py

\* dict as the ordered sequence of its <<key, value>> items.
DictKeys(d) == {d[i][1] : i \in DOMAIN d}

DictGet(d, k, dflt) ==
  IF k \in DictKeys(d)
  THEN d[CHOOSE i \in DOMAIN d : d[i][1] = k][2]
  ELSE dflt

\* d[k] = v: an existing key keeps its place, a new key goes last.
DictSet(d, k, v) ==
  IF k \in DictKeys(d)
  THEN [i \in DOMAIN d |-> IF d[i][1] = k THEN <<k, v>> ELSE d[i]]
  ELSE Append(d, <<k, v>>)

RECURSIVE DictUpdate(_, _)
\* d.update(e)
DictUpdate(d, e) ==
  IF e = <<>> THEN d
  ELSE DictUpdate(DictSet(d, Head(e)[1], Head(e)[2]), Tail(e))

RECURSIVE join(_)
\* ''.join(parts)
join(parts) ==
  IF parts = <<>> THEN <<>> ELSE Head(parts).s \o join(Tail(parts))

RECURSIVE StrLt(_, _)
\* str < str: by code point, a proper prefix first.
StrLt(a, b) ==
  IF b = <<>> THEN FALSE
  ELSE IF a = <<>> THEN TRUE
  ELSE IF Head(a) # Head(b) THEN Head(a) < Head(b)
  ELSE StrLt(Tail(a), Tail(b))

\* a < b on slot values: only str with str is supported.
PyLt(a, b) ==
  IF a.t = "str" /\ b.t = "str" THEN Return(Bool(StrLt(a.s, b.s)))
  ELSE Raise("TypeError")

\* tuple < tuple: the first unequal pair decides, by its own <.
FirstOf(diff) == CHOOSE j \in diff : \A k \in diff : j <= k

DecideAt(x, y, diff) ==
  IF diff = {} THEN Return(Bool(FALSE))
  ELSE PyLt(x[FirstOf(diff)], y[FirstOf(diff)])

TupleLt(x, y) == DecideAt(x, y, {i \in DOMAIN x : x[i] # y[i]})

\* hash() of a slot value: None is a fixed number, a str hashes its content.
\* Hashes are kept to 16 bits, so that distinct triples can collide.
HashModulus == 65536

RECURSIVE StrHash(_)
StrHash(s) ==
  IF s = <<>> THEN 0 ELSE (31 * StrHash(Tail(s)) + Head(s)) % HashModulus

ValueHash(v) == IF v = None THEN 4238 ELSE StrHash(v.s)

RECURSIVE TupleHash(_)
\* hash() of a tuple: folds the hashes of its items, in order.
TupleHash(t) ==
  IF t = <<>> THEN 1
  ELSE (1031 * TupleHash(Tail(t)) + ValueHash(Head(t))) % HashModulus

isinstance_Preset(o) == o.t = "Preset"

\* `if x:` on None or a str
truthy(v) == v # None /\ v.s # <<>>

----------------------------------------------------------------------------
\* class Preset.  A method takes the heap and the index of self, and gives
\* [heap: the heap after the call, result, colr: the Colr calls it made,
\*  lookups: the codes[...] lookups it made].

Outcome(h, r, c, l) == [heap |-> h, result |-> r, colr |-> c, lookups |-> l]

getattr(p, name, dflt) ==
  IF name \in {"fore", "back", "style"} THEN p[name] ELSE dflt

\* __init__ that validates, and drops a value the Colorizer rejects.
init_validating(fore, back, style) ==
  [fore |-> IF get_escape_code("fore", fore).kind = "raise" THEN None ELSE fore,
   back |-> IF get_escape_code("back", back).kind = "raise" THEN None ELSE back,
   style |-> IF get_escape_code("style", style).kind = "raise" THEN None
             ELSE style]

\* __init__(self, fore=None, back=None, style=None): stores, no validation.
__init__(fore, back, style) == [fore |-> fore, back |-> back, style |-> style]

\* Colr(text, **kw), logged.
Colr_call(h, kw) ==
  Outcome(h, Colr(kw.text, kw.fore, kw.back, kw.style), <<kw>>, <<>>)

\* self.x if x is None else x
override(own, x) == IF x = None THEN own ELSE x

\* __call__ that keeps the overrides on self.
call_sticky(h, self, text, fore, back, style) ==
  Colr_call([h EXCEPT ![self] = __init__(override(h[self].fore, fore),
                                         override(h[self].back, back),
                                         override(h[self].style, style))],
            ColrCall(text, override(h[self].fore, fore),
                     override(h[self].back, back),
                     override(h[self].style, style)))

\* __call__(self, text, fore=None, back=None, style=None)
__call__(h, self, text, fore, back, style) ==
  Colr_call(h, ColrCall(text, override(h[self].fore, fore),
                        override(h[self].back, back),
                        override(h[self].style, style)))

\* __eq__(self, other)
__eq__(h, self, other) ==
  IF ~isinstance_Preset(other) THEN Outcome(h, Raise("TypeError"), <<>>, <<>>)
  ELSE Outcome(h,
         Return(Bool(/\ h[self].fore = h[other.id].fore
                     /\ h[self].back = h[other.id].back
                     /\ h[self].style = h[other.id].style)),
         <<>>, <<>>)

\* __hash__ left at object's default: by identity.
hash_identity(h, self) == Outcome(h, Return(PyInt(self)), <<>>, <<>>)

\* __hash__(self)
__hash__(h, self) ==
  Outcome(h,
    Return(PyInt(TupleHash(<<h[self].fore, h[self].back, h[self].style>>))),
    <<>>, <<>>)

\* __lt__(self, other)
__lt__(h, self, other) ==
  IF ~isinstance_Preset(other) THEN Outcome(h, Raise("TypeError"), <<>>, <<>>)
  ELSE Outcome(h,
         TupleLt(<<h[self].fore, h[self].back, h[self].style>>,
                 <<h[other.id].fore, h[other.id].back, h[other.id].style>>),
         <<>>, <<>>)

\* if v is not None: d[k] = v
dict_put(d, k, v) == IF v # None THEN DictSet(d, k, v) ELSE d

\* as_dict(self), on the object itself
dict_of(p) ==
  dict_put(dict_put(dict_put(<<>>, "fore", p.fore), "back", p.back),
           "style", p.style)

as_dict(h, self) == Outcome(h, Return(dict_of(h[self])), <<>>, <<>>)

\* kwargs = {codetype: val}
kwargs(codetype, val) ==
  ColrCall(None, IF codetype = "fore" THEN val ELSE None,
           IF codetype = "back" THEN val ELSE None,
           IF codetype = "style" THEN val ELSE None)

Lookup(codetype, val) == [codetype |-> codetype, val |-> val]

\* str(x) of what Colr(...) gave, or its error.
str_of(out) ==
  Outcome(out.heap,
          IF out.result.kind = "raise" THEN out.result
          ELSE Return(str(out.result.value)),
          out.colr, out.lookups)

\* code() from `fast = ...` on.
code_found(h, codetype, val, fast) ==
  IF truthy(fast) THEN Outcome(h, Return(fast), <<>>, <<Lookup(codetype, val)>>)
  ELSE [str_of(Colr_call(h, kwargs(codetype, val)))
          EXCEPT !.lookups = <<Lookup(codetype, val)>>]

\* code() from `val = ...` on.
code_value(h, codetype, default, val) ==
  IF val = None THEN Outcome(h, Return(default), <<>>, <<>>)
  ELSE code_found(h, codetype, val, codes_get(codetype, val))

\* code() without the fast path: always renders through Colr.
code_always_colr(h, self, codetype, default) ==
  IF codetype \notin {"fore", "back", "style"}
  THEN Outcome(h, Raise("ValueError"), <<>>, <<>>)
  ELSE IF getattr(h[self], codetype, None) = None
  THEN Outcome(h, Return(default), <<>>, <<>>)
  ELSE str_of(Colr_call(h, kwargs(codetype, getattr(h[self], codetype, None))))

\* code() without the codetype check: getattr's default answers for any name.
code_unchecked(h, self, codetype, default) ==
  code_value(h, codetype, default, getattr(h[self], codetype, None))

\* code(self, codetype, default=None)
code(h, self, codetype, default) ==
  IF codetype \notin {"fore", "back", "style"}
  THEN Outcome(h, Raise("ValueError"), <<>>, <<>>)
  ELSE code_value(h, codetype, default, getattr(h[self], codetype, None))

\* The list so far with one more code() outcome: a raise replaces the list.
codes_append(acc, c) ==
  Outcome(c.heap,
          IF c.result.kind = "raise" THEN c.result
          ELSE Return(Append(acc.result.value, c.result.value)),
          acc.colr \o c.colr, acc.lookups \o c.lookups)

\* One turn of [self.code(s) for s in codetypes if getattr(self, s, None)
\* is not None]: nothing runs after a code() that raised.
codes_step(acc, self, s) ==
  IF acc.result.kind = "raise" THEN acc
  ELSE IF getattr(acc.heap[self], s, None) = None THEN acc
  ELSE codes_append(acc, code(acc.heap, self, s, None))

\* return ''.join(codes)
codes_join(l) ==
  IF l.result.kind = "raise" THEN l
  ELSE Outcome(l.heap, Return(Str(join(l.result.value))), l.colr, l.lookups)

\* codes() walking the axes last to first.
codes_reversed(h, self) ==
  codes_join(codes_step(codes_step(codes_step(
    Outcome(h, Return(<<>>), <<>>, <<>>), self, "style"), self, "back"),
    self, "fore"))

\* codes(self)
Preset_codes(h, self) ==
  codes_join(codes_step(codes_step(codes_step(
    Outcome(h, Return(<<>>), <<>>, <<>>), self, "fore"), self, "back"),
    self, "style"))

\* self.__class__(**d): a key that is missing takes __init__'s default.
from_dict(d) ==
  __init__(DictGet(d, "fore", None), DictGet(d, "back", None),
           DictGet(d, "style", None))

\* merge() that lets self win over styleobj.
merge_self_wins(h, self, styleobj, fore, back, style) ==
  Outcome(Append(h, from_dict(
            DictUpdate(DictUpdate(dict_of(h[styleobj.id]), dict_of(h[self])),
                       dict_of(__init__(fore, back, style))))),
          Return(Ref(Len(h) + 1)), <<>>, <<>>)

\* merge() that updates self and returns it.
merge_in_place(h, self, styleobj, fore, back, style) ==
  Outcome([h EXCEPT ![self] = from_dict(
            DictUpdate(DictUpdate(dict_of(h[self]), dict_of(h[styleobj.id])),
                       dict_of(__init__(fore, back, style))))],
          Return(Ref(self)), <<>>, <<>>)

\* merge(self, styleobj, fore=None, back=None, style=None)
merge(h, self, styleobj, fore, back, style) ==
  Outcome(Append(h, from_dict(
            DictUpdate(DictUpdate(dict_of(h[self]), dict_of(h[styleobj.id])),
                       dict_of(__init__(fore, back, style))))),
          Return(Ref(Len(h) + 1)), <<>>, <<>>)

----------------------------------------------------------------------------
\* The callers.  heap holds the Presets they keep, constructed what each was
\* built with, last the call being made: its arguments, what it gave back
\* (made: the slots of the Preset it returned) and the collaborator calls.

Nothing == __init__(None, None, None)

Call(op, self, other, codetype, default, text, fore, back, style, out, made) ==
  [op |-> op, self |-> self, other |-> other, codetype |-> codetype,
   default |-> default, text |-> text, fore |-> fore, back |-> back,
   style |-> style, result |-> out.result, colr |-> out.colr,
   lookups |-> out.lookups, made |-> made]

\* No call is under way.
Idle ==
  Call("idle", 0, None, "", None, None, None, None, None,
       Outcome(<<>>, Return(None), <<>>, <<>>), Nothing)

Init ==
  /\ heap = <<>>
  /\ constructed = <<>>
  /\ last = Idle

\* The caller has taken the outcome of its call and goes on to the next one.
Resume ==
  /\ last.op # "idle"
  /\ last' = Idle
  /\ UNCHANGED <<heap, constructed>>

\* p = Preset(fore, back, style)
Construct(fore, back, style) ==
  /\ last.op = "idle"
  /\ Len(heap) < MaxPresets
  /\ LET p == __init__(fore, back, style)
         out == Outcome(Append(heap, p), Return(Ref(Len(heap) + 1)), <<>>, <<>>)
     IN /\ heap' = out.heap
        /\ constructed' = Append(constructed, [fore |-> fore, back |-> back,
                                               style |-> style])
        /\ last' = Call("init", Len(heap) + 1, None, "", None, None,
                        fore, back, style, out, out.heap[Len(heap) + 1])

\* p(text, fore, back, style)
Invoke(self, text, fore, back, style) ==
  LET out == __call__(heap, self, text, fore, back, style)
  IN /\ last.op = "idle"
     /\ heap' = out.heap
     /\ last' = Call("call", self, None, "", None, text, fore, back, style,
                     out, Nothing)
     /\ UNCHANGED constructed

\* p == other
Equals(self, other) ==
  LET out == __eq__(heap, self, other)
  IN /\ last.op = "idle"
     /\ heap' = out.heap
     /\ last' = Call("eq", self, other, "", None, None, None, None, None,
                     out, Nothing)
     /\ UNCHANGED constructed

\* p < other
Compare(self, other) ==
  LET out == __lt__(heap, self, other)
  IN /\ last.op = "idle"
     /\ heap' = out.heap
     /\ last' = Call("lt", self, other, "", None, None, None, None, None,
                     out, Nothing)
     /\ UNCHANGED constructed

\* hash(p)
Hash(self) ==
  LET out == __hash__(heap, self)
  IN /\ last.op = "idle"
     /\ heap' = out.heap
     /\ last' = Call("hash", self, None, "", None, None, None, None, None,
                     out, Nothing)
     /\ UNCHANGED constructed

\* p.as_dict()
AsAttributeDict(self) ==
  LET out == as_dict(heap, self)
  IN /\ last.op = "idle"
     /\ heap' = out.heap
     /\ last' = Call("as_dict", self, None, "", None, None, None, None, None,
                     out, Nothing)
     /\ UNCHANGED constructed

\* p.code(codetype, default)
ResolveCode(self, codetype, default) ==
  LET out == code(heap, self, codetype, default)
  IN /\ last.op = "idle"
     /\ heap' = out.heap
     /\ last' = Call("code", self, None, codetype, default, None, None, None,
                     None, out, Nothing)
     /\ UNCHANGED constructed

\* p.codes()
ResolveAllCodes(self) ==
  LET out == Preset_codes(heap, self)
  IN /\ last.op = "idle"
     /\ heap' = out.heap
     /\ last' = Call("codes", self, None, "", None, None, None, None, None,
                     out, Nothing)
     /\ UNCHANGED constructed

\* p.merge(other, fore, back, style); the caller looks at the Preset it gets
\* and lets go of it, so the kept Presets are the first Len(heap) objects.
Merge(self, other, fore, back, style) ==
  LET out == merge(heap, self, other, fore, back, style)
  IN /\ last.op = "idle"
     /\ heap' = SubSeq(out.heap, 1, Len(heap))
     /\ last' = Call("merge", self, other, "", None, None, fore, back, style,
                     out, out.heap[out.result.value.id])
     /\ UNCHANGED constructed

Next ==
  \/ Resume
  \/ \E f \in ForeValues, b \in BackValues, s \in StyleValues : Construct(f, b, s)
  \/ \E self \in DOMAIN heap :
       \/ \E t \in Texts, f \in ForeOverrides, b \in BackOverrides,
             s \in StyleOverrides :
            Invoke(self, t, f, b, s)
       \/ \E other \in {Ref(i) : i \in DOMAIN heap} \cup Strangers :
            Equals(self, other)
       \/ \E other \in {Ref(i) : i \in DOMAIN heap} \cup Strangers :
            Compare(self, other)
       \/ Hash(self)
       \/ AsAttributeDict(self)
       \/ \E c \in CodeTypes, d \in Defaults : ResolveCode(self, c, d)
       \/ ResolveAllCodes(self)
       \/ \E other \in DOMAIN heap, f \in ForeOverrides, b \in BackOverrides,
             s \in StyleOverrides : Merge(self, Ref(other), f, b, s)

Spec == Init /\ [][Next]_vars

----------------------------------------------------------------------------
\* Properties

AxisSet == {"fore", "back", "style"}
IsTrue(r) == r.kind = "return" /\ r.value = Bool(TRUE)

\* A value that neither the table nor the Colorizer accepts on this axis.
Invalid(axis, val) == val # None /\ get_escape_code(axis, val).kind = "raise"
InvalidError(axis) == IF axis = "style" THEN "InvalidStyle" ELSE "InvalidColr"

\* C1: merge gives, on each axis, the explicit argument if it is not None,
\* else styleobj's slot if it is not None, else self's slot.
MergePrecedence ==
  last.op = "merge" =>
    /\ last.result.kind = "return"
    /\ \A a \in AxisSet :
         last.made[a] =
           IF last[a] # None THEN last[a]
           ELSE IF heap[last.other.id][a] # None THEN heap[last.other.id][a]
           ELSE heap[last.self][a]

\* C1 witness: Preset('red', None, 'nope').merge(Preset(back='ff0000'),
\* style='bold') gave Preset('red', 'ff0000', 'bold').
MergePrecedenceSeen ==
  /\ last.op = "merge"
  /\ heap[last.self] = __init__(Str(red), None, Str(nope))
  /\ heap[last.other.id] = __init__(None, Str(ff0000), None)
  /\ last.fore = None /\ last.back = None /\ last.style = Str(bold)
  /\ last.made = __init__(Str(red), Str(ff0000), Str(bold))

\* C2: a call delegates to Colr exactly once, on each axis with the override
\* if one is given and the Preset's slot if not; with no override at all it
\* delegates the triple the Preset was constructed with.
InvokeOverrideSelection ==
  last.op = "call" =>
    /\ last.colr =
         <<ColrCall(last.text,
                    IF last.fore # None THEN last.fore ELSE heap[last.self].fore,
                    IF last.back # None THEN last.back ELSE heap[last.self].back,
                    IF last.style # None THEN last.style
                    ELSE heap[last.self].style)>>
    /\ last.result = Colr(last.colr[1].text, last.colr[1].fore,
                          last.colr[1].back, last.colr[1].style)
    /\ (last.fore = None /\ last.back = None /\ last.style = None) =>
         last.colr = <<ColrCall(last.text, constructed[last.self].fore,
                                constructed[last.self].back,
                                constructed[last.self].style)>>

\* C2 witness: Preset(fore='red') called with fore='nope'.
InvokeOverrideSeen ==
  /\ last.op = "call"
  /\ heap[last.self].fore = Str(red)
  /\ last.fore = Str(nope)
  /\ last.colr[1].fore = Str(nope)

CodePart(a) ==
  IF heap[last.self][a] = None THEN <<>>
  ELSE code(heap, last.self, a, None).result.value.s

CodeRaises(a) ==
  /\ heap[last.self][a] # None
  /\ code(heap, last.self, a, None).result.kind = "raise"

ResolveAllCodesConcat ==
  last.op = "codes" =>
    /\ (\E a \in AxisSet : CodeRaises(a)) =>
         /\ last.result.kind = "raise"
         /\ last.result =
              code(heap, last.self,
                   IF CodeRaises("fore") THEN "fore"
                   ELSE IF CodeRaises("back") THEN "back" ELSE "style",
                   None).result
    /\ ~(\E a \in AxisSet : CodeRaises(a)) =>
         last.result =
           Return(Str(CodePart("fore") \o CodePart("back") \o CodePart("style")))
    /\ heap[last.self] = Nothing => last.result = Return(Str(<<>>))

\* C4 witness: Preset('red', 'ff0000', 'bold').codes() returned.
ResolveAllCodesSeen ==
  /\ last.op = "codes"
  /\ heap[last.self] = __init__(Str(red), Str(ff0000), Str(bold))
  /\ last.result.kind = "return"
  /\ Len(last.result.value.s) > 0

\* C5: code() of a valid axis gives default for a None slot; the table's
\* fragment, with no Colr call, for a value the table has; and otherwise
\* what one Colr call with that axis alone gives: its text, or its error.
ResolveCodeTwoTier ==
  (last.op = "code" /\ last.codetype \in AxisSet) =>
    LET val == heap[last.self][last.codetype]
        only == ColrCall(None,
                         IF last.codetype = "fore" THEN val ELSE None,
                         IF last.codetype = "back" THEN val ELSE None,
                         IF last.codetype = "style" THEN val ELSE None)
        made == Colr(None, only.fore, only.back, only.style)
    IN IF val = None
       THEN last.result = Return(last.default) /\ last.colr = <<>>
       ELSE IF val.s \in DOMAIN codes(last.codetype)
       THEN /\ last.result = Return(Str(codes(last.codetype)[val.s]))
            /\ last.colr = <<>>
       ELSE /\ last.colr = <<only>>
            /\ last.result =
                 IF made.kind = "raise" THEN made ELSE Return(Str(made.value.s))

\* C5 witness: code('fore') of Preset(fore='red') took the fast path.
ResolveCodeSeen ==
  /\ last.op = "code"
  /\ last.codetype = "fore"
  /\ heap[last.self].fore = Str(red)
  /\ last.result.kind = "return"
  /\ last.lookups # <<>>
  /\ last.colr = <<>>

\* C6: construction takes any values and keeps them; as_dict reports an
\* invalid value as it was given; code() of its axis, codes() and a call
\* that uses it raise InvalidColr / InvalidStyle.
LazyValidation ==
  /\ last.op = "init" =>
       /\ last.result.kind = "return"
       /\ heap[last.self] = [fore |-> last.fore, back |-> last.back,
                             style |-> last.style]
  /\ last.op = "as_dict" =>
       \A a \in AxisSet :
         DictGet(last.result.value, a, None) = constructed[last.self][a]
  /\ (/\ last.op = "code"
      /\ last.codetype \in AxisSet
      /\ Invalid(last.codetype, constructed[last.self][last.codetype])) =>
       last.result = Raise(InvalidError(last.codetype))
  /\ (/\ last.op = "codes"
      /\ \E a \in AxisSet : Invalid(a, constructed[last.self][a])) =>
       /\ last.result.kind = "raise"
       /\ last.result.exc \in {"InvalidColr", "InvalidStyle"}
  /\ (/\ last.op = "call"
      /\ \E a \in AxisSet :
           Invalid(a, IF last[a] # None THEN last[a]
                      ELSE constructed[last.self][a])) =>
       /\ last.result.kind = "raise"
       /\ last.result.exc \in {"InvalidColr", "InvalidStyle"}

\* C6 witness: Preset(fore='nope') was constructed and its codes() raised.
LazyValidationSeen ==
  /\ last.op = "codes"
  /\ constructed[last.self].fore = Str(nope)
  /\ heap[last.self].fore = Str(nope)
  /\ last.result = Raise("InvalidColr")

\* C7: == and < raise TypeError for every operand that is not a Preset, and
\* for no operand that is one.
TypeMismatchContract ==
  last.op \in {"eq", "lt"} =>
    /\ last.other.t # "Preset" => last.result = Raise("TypeError")
    /\ last.other.t = "Preset" => last.result # Raise("TypeError")

\* C8: a == b exactly when the three slots are pairwise equal; == is
\* reflexive and symmetric; and equal Presets have equal hashes.
EqualityHashAgreement ==
  /\ (last.op = "eq" /\ last.other.t = "Preset") =>
       /\ last.result =
            Return(Bool(/\ constructed[last.self].fore = constructed[last.other.id].fore
                        /\ constructed[last.self].back = constructed[last.other.id].back
                        /\ constructed[last.self].style = constructed[last.other.id].style))
       /\ last.result = __eq__(heap, last.other.id, Ref(last.self)).result
       /\ IsTrue(__eq__(heap, last.self, Ref(last.self)).result)
       /\ IsTrue(last.result) =>
            __hash__(heap, last.self).result = __hash__(heap, last.other.id).result
  /\ last.op = "hash" =>
       \A j \in DOMAIN heap :
         IsTrue(__eq__(heap, last.self, Ref(j)).result) =>
           __hash__(heap, j).result = last.result

\* C8 witness: two distinct Presets built from one triple compared equal.
EqualityHashSeen ==
  /\ last.op = "eq"
  /\ last.other.t = "Preset"
  /\ last.other.id # last.self
  /\ heap[last.self].fore # None
  /\ IsTrue(last.result)

\* C9: code() with a codetype outside fore, back, style raises ValueError,
\* whatever the slots and the default, and calls neither codes nor Colr.
BadAxisName ==
  (last.op = "code" /\ last.codetype \notin AxisSet) =>
    /\ last.result = Raise("ValueError")
    /\ last.colr = <<>>
    /\ last.lookups = <<>>

\* C9 witness: Preset().code('bogus', '-') raised.
BadAxisNameSeen ==
  /\ last.op = "code"
  /\ last.codetype = "bogus"
  /\ last.default = Str(dash)
  /\ heap[last.self] = Nothing
  /\ last.result.kind = "raise"

\* C10: for two Presets with None or str slots, < never fails and exactly
\* one of a < b, a == b, b < a holds; with back and style None on both and
\* two fore strings, a < b is the order of the fore strings.
TotalOrder ==
  (last.op = "lt" /\ last.other.t = "Preset") =>
    LET ab == last.result
        ba == __lt__(heap, last.other.id, Ref(last.self)).result
        eq == __eq__(heap, last.self, last.other).result
        a == heap[last.self]
        b == heap[last.other.id]
    IN /\ ab.kind = "return"
       /\ ba.kind = "return"
       /\ Cardinality({r \in {"ab", "eq", "ba"} :
            IsTrue(CASE r = "ab" -> ab [] r = "eq" -> eq [] r = "ba" -> ba)}) = 1
       /\ (/\ a.back = None /\ a.style = None /\ b.back = None /\ b.style = None
           /\ a.fore.t = "str" /\ b.fore.t = "str") =>
            ab = Return(Bool(StrLt(a.fore.s, b.fore.s)))

====
